---- MODULE Spec2Model ----
(***************************************************************************)
(* Smart Resume Screener backend (src/backend/main.py).                    *)
(*                                                                         *)
(* The model covers the POST /analyze handler analyze_resumes, the text    *)
(* extractor parse_resume_file, the scoring client get_analysis and the    *)
(* SQLAlchemy session / SQLite table the handler writes to.                *)
(*                                                                         *)
(* Texts (file names, model replies) are sequences of one-character        *)
(* strings so that startswith / endswith / slicing / strip / lower are     *)
(* computed character by character, as Python computes them.               *)
(***************************************************************************)
EXTENDS Integers, Sequences, FiniteSets, TLC

VARIABLES
    files,            \* files[r]: the batch of request r (sequence of uploads)
    api,              \* api[r][i]: what the external model does when asked
                      \*            about file i of request r
    job_description,  \* job_description[r]: the form field of request r
    pc,               \* pc[r]: position of request r inside analyze_resumes
    idx,              \* idx[r]: 1-based position of the file the loop is on
    session,          \* session[r]: the request's SQLAlchemy session db
    results,          \* results[r]: the local list results
    resume_text,      \* resume_text[r]: local of the loop body
    analysis,         \* analysis[r]: local of the loop body
    exc,              \* exc[r]: the exception in flight, if any
    resp,             \* resp[r]: the HTTP response of request r
    store,            \* committed rows of table resume_analyses (shared)
    trace,            \* trace[r]: history of the steps request r has started
    call              \* call[r]: history of the last get_analysis call

vars == <<files, api, job_description, pc, idx, session, results, resume_text,
          analysis, exc, resp, store, trace, call>>

(***************************************************************************)
(* Bounds of the model.                                                    *)
(***************************************************************************)
\* Batches of up to MaxVaried files are enumerated over every file of Uploads.
MaxVaried == 2
\* Concurrent requests carry batches of up to MaxConc files.
MaxConc == 2

\* len(files) > 10 is rejected.
MaxFiles == 10

Reqs == {1, 2}

(***************************************************************************)
(* Text helpers (Python str methods).                                      *)
(***************************************************************************)
Whitespace == {" ", "\n"}

RECURSIVE LStrip(_)
LStrip(s) ==
    IF s # <<>> /\ Head(s) \in Whitespace THEN LStrip(Tail(s)) ELSE s

RECURSIVE RStrip(_)
RStrip(s) ==
    IF s # <<>> /\ s[Len(s)] \in Whitespace
    THEN RStrip(SubSeq(s, 1, Len(s) - 1))
    ELSE s

Strip(s) == RStrip(LStrip(s))

StartsWith(s, p) == Len(s) >= Len(p) /\ SubSeq(s, 1, Len(p)) = p

EndsWith(s, p) == Len(s) >= Len(p) /\ SubSeq(s, Len(s) - Len(p) + 1, Len(s)) = p

\* s[k:]
DropFirst(s, k) == SubSeq(s, k + 1, Len(s))

\* s[:-k]
DropLast(s, k) == SubSeq(s, 1, Len(s) - k)

LowerChar(c) ==
    CASE c = "P" -> "p"
      [] c = "D" -> "d"
      [] c = "F" -> "f"
      [] c = "T" -> "t"
      [] c = "X" -> "x"
      [] OTHER -> c

Lower(s) == [i \in 1..Len(s) |-> LowerChar(s[i])]

(***************************************************************************)
(* Exceptions and responses.                                               *)
(***************************************************************************)
NoExc == [type |-> "none", status |-> "", detail |-> <<>>]

HTTPException(status, detail) ==
    [type |-> "HTTPException", status |-> status, detail |-> detail]

Raised(type, msg) == [type |-> type, status |-> "", detail |-> <<msg>>]

\* str(e): starlette's HTTPException prints "<status>: <detail>".
Str(e) ==
    IF e.type = "HTTPException" THEN <<e.status, ": ">> \o e.detail ELSE e.detail

NoResp == [status |-> "", results |-> <<>>, detail |-> <<>>]

(***************************************************************************)
(* Uploads.  An upload is a file name and the kind of bytes it carries.    *)
(***************************************************************************)
ExtPdf == <<".", "p", "d", "f">>
ExtDocx == <<".", "d", "o", "c", "x">>
ExtTxt == <<".", "t", "x", "t">>

\* allowed_extensions of analyze_resumes
allowed_extensions == <<ExtPdf, ExtDocx, ExtTxt>>

Upload(name, content) == [filename |-> name, content |-> content]

fTxt == Upload(<<"a">> \o ExtTxt, "wellformed")
fTxtBadUtf8 == Upload(<<"b">> \o ExtTxt, "malformed")
fPdf == Upload(<<"c">> \o ExtPdf, "wellformed")
fDocx == Upload(<<"d">> \o ExtDocx, "wellformed")
fPdfUpper == Upload(<<"e", ".", "P", "D", "F">>, "wellformed")
fExe == Upload(<<"f", ".", "e", "x", "e">>, "wellformed")

Uploads == {fTxt, fTxtBadUtf8, fPdf, fDocx, fPdfUpper, fExe}

(***************************************************************************)
(* parse_resume_file                                                       *)
(***************************************************************************)
Extracted(text) == [exc |-> NoExc, text |-> text]

ExtractFailed(e) == [exc |-> e, text |-> ""]

\* PdfReader / Document / bytes.decode on the upload's bytes
Decode(file, failure) ==
    IF file.content = "wellformed"
    THEN Extracted("text")
    ELSE ExtractFailed(Raised(failure, "cannot decode"))

parse_resume_file(file) ==
    IF EndsWith(file.filename, ExtPdf) THEN Decode(file, "PdfReadError")
    ELSE IF EndsWith(file.filename, ExtDocx) THEN Decode(file, "BadZipFile")
    ELSE IF EndsWith(file.filename, ExtTxt) THEN Decode(file, "UnicodeDecodeError")
    ELSE ExtractFailed(HTTPException("400", <<"Unsupported file type: ">>))

(***************************************************************************)
(* json.loads and dict subscripting, on the replies of the model below.    *)
(***************************************************************************)
DocFull7 == <<"{", "\"", "s", "c", "o", "r", "e", "\"", ":", "7", ",", "\"", "j", "u", "s", "t", "i", "f", "i", "c", "a", "t", "i", "o", "n", "\"", ":", "\"", "x", "\"", "}">>
DocFull8 == <<"{", "\"", "s", "c", "o", "r", "e", "\"", ":", "8", ",", "\"", "j", "u", "s", "t", "i", "f", "i", "c", "a", "t", "i", "o", "n", "\"", ":", "\"", "y", "\"", "}">>
DocNoJustification == <<"{", "\"", "s", "c", "o", "r", "e", "\"", ":", "7", "}">>
DocNoScore == <<"{", "\"", "j", "u", "s", "t", "i", "f", "i", "c", "a", "t", "i", "o", "n", "\"", ":", "\"", "x", "\"", "}">>
DocNumber == <<"7">>
DocProse == <<"o", "o", "p", "s">>

NoValue == [kind |-> "none", fields |-> <<>>]

JsonObject(fields) == [kind |-> "object", fields |-> fields]

JsonNumber == [kind |-> "number", fields |-> <<>>]

Parsed(v) == [exc |-> NoExc, value |-> v]

\* json.loads: the documents of the bounded reply set that are valid JSON
\* decode to their value; every other text raises JSONDecodeError.
JsonLoads(t) ==
    CASE t = DocFull7 ->
            Parsed(JsonObject([score |-> 7, justification |-> "x"]))
      [] t = DocFull8 ->
            Parsed(JsonObject([score |-> 8, justification |-> "y"]))
      [] t = DocNoJustification ->
            Parsed(JsonObject([score |-> 7]))
      [] t = DocNoScore ->
            Parsed(JsonObject([justification |-> "x"]))
      [] t = DocNumber ->
            Parsed(JsonNumber)
      [] OTHER ->
            [exc |-> Raised("JSONDecodeError", "Expecting value"), value |-> NoValue]

\* analysis[key]
Subscript(v, key) ==
    IF v.kind # "object" THEN Raised("TypeError", "not subscriptable")
    ELSE IF key \notin DOMAIN v.fields THEN Raised("KeyError", key)
    ELSE NoExc

(***************************************************************************)
(* get_analysis                                                            *)
(***************************************************************************)
\* The grave accent U+0060 of a markdown fence (written as a named character:
\* the module's lexer does not take it inside a string).
Tick == "'"

Fence7 == <<Tick, Tick, Tick, "j", "s", "o", "n">>
Fence3 == <<Tick, Tick, Tick>>

\* lines 184-194: the text handed to json.loads
CleanResponse(text) ==
    LET t0 == Strip(text)
        t1 == IF StartsWith(t0, Fence7) THEN DropFirst(t0, 7) ELSE t0
        t2 == IF StartsWith(t1, Fence3) THEN DropFirst(t1, 3) ELSE t1
        t3 == IF EndsWith(t2, Fence3) THEN DropLast(t2, 3) ELSE t2
    IN  Strip(t3)

\* What model.generate_content / response.text can produce.
ApiRaised == [raised |-> TRUE, has_text |-> FALSE, text |-> <<>>]
ApiNone == [raised |-> FALSE, has_text |-> FALSE, text |-> <<>>]
ApiText(t) == [raised |-> FALSE, has_text |-> TRUE, text |-> t]

Scored(v, cleaned) ==
    [exc |-> NoExc, value |-> v, parser_called |-> TRUE, cleaned |-> cleaned]

ScoreFailed(e, parser_called, cleaned) ==
    [exc |-> e, value |-> NoValue, parser_called |-> parser_called,
     cleaned |-> cleaned]

\* the body of the try block, lines 176-198
GetAnalysisTry(out) ==
    IF out.raised
    THEN ScoreFailed(Raised("GoogleAPIError", "api failure"), FALSE, <<>>)
    ELSE IF ~out.has_text \/ out.text = <<>> \/ Strip(out.text) = <<>>
    THEN ScoreFailed(HTTPException("500", <<"Empty response from Gemini API">>),
                     FALSE, <<>>)
    ELSE LET cleaned == CleanResponse(out.text)
             parsed == JsonLoads(cleaned)
         IN  IF parsed.exc = NoExc
             THEN Scored(parsed.value, cleaned)
             ELSE ScoreFailed(parsed.exc, TRUE, cleaned)

\* the except clauses, lines 199-205, in the order Python tries them
GetAnalysisExcept(r) ==
    IF r.exc = NoExc THEN r
    ELSE IF r.exc.type = "JSONDecodeError"
    THEN [r EXCEPT !.exc = HTTPException("500",
                      <<"Invalid JSON response from Gemini: ">> \o Str(r.exc))]
    ELSE [r EXCEPT !.exc = HTTPException("500",
                      <<"Error analyzing resume: ">> \o Str(r.exc))]

get_analysis(out) == GetAnalysisExcept(GetAnalysisTry(out))

(***************************************************************************)
(* Replies of the external model used as inputs of get_analysis.           *)
(***************************************************************************)
ReplyPlain == DocFull7
ReplyJsonFence == Fence7 \o <<"\n">> \o DocFull7 \o <<"\n">> \o Fence3
ReplyBareFence == Fence3 \o <<"\n">> \o DocFull8 \o <<"\n">> \o Fence3
ReplyDoubleFence == Fence7 \o Fence3 \o DocFull7 \o Fence3
ReplyPadded == <<" ">> \o DocFull8 \o <<"\n">>
ReplyBlank == <<" ", "\n">>
ReplyEmptyString == <<>>
ReplyFenceOnly == Fence7
ReplyProse == DocProse
ReplyNoJustification == DocNoJustification
ReplyNoScore == DocNoScore
ReplyNumber == DocNumber

Replies ==
    {ReplyPlain, ReplyJsonFence, ReplyBareFence, ReplyDoubleFence, ReplyPadded,
     ReplyBlank, ReplyEmptyString, ReplyFenceOnly, ReplyProse,
     ReplyNoJustification, ReplyNoScore, ReplyNumber}

ApiOutcomes == {ApiRaised, ApiNone} \cup {ApiText(t) : t \in Replies}

(***************************************************************************)
(* The table resume_analyses and the per-request session.                  *)
(***************************************************************************)
\* Variant of ResumeAnalysis that loses the justification.
ResumeAnalysisNoJustification(filename, jd, score, justification, req, pos) ==
    [id |-> 0, filename |-> filename, job_description |-> jd, score |-> score,
     justification |-> "", req |-> req, pos |-> pos]

\* A ResumeAnalysis object; req and pos record the request and the file
\* position that built it (history, not a column).
ResumeAnalysis(filename, jd, score, justification, req, pos) ==
    [id |-> 0, filename |-> filename, job_description |-> jd, score |-> score,
     justification |-> justification, req |-> req, pos |-> pos]

\* SessionLocal()
NoSession == [state |-> "none", pending |-> <<>>, closes |-> 0]
SessionLocal == [state |-> "open", pending |-> <<>>, closes |-> 0]

\* Variant of SessionOf in which the handler keeps one module-level session.
SessionShared(r) == 1

\* db = SessionLocal() (line 251): every call of the handler works on a
\* session of its own.
SessionOf(r) == r

\* db.add(obj)
DbAdd(db, obj) == [db EXCEPT !.pending = Append(@, obj)]

\* The rows a successful db.commit() of session db inserts: the autoincrement
\* primary key continues after the rows of the table.
Flushed(db, table) ==
    [k \in 1..Len(db.pending) |-> [db.pending[k] EXCEPT !.id = Len(table) + k]]

\* Variant of DbCommitted that leaves the inserted objects pending.
DbCommittedKeepsPending(db) == db

\* db.commit() succeeding
DbCommitted(db) == [db EXCEPT !.pending = <<>>]

\* db.rollback()
DbRollback(db) == [db EXCEPT !.pending = <<>>]

\* Variant of DbClose that drops the pending objects but never releases
\* the session.
DbCloseLeaks(db) == [db EXCEPT !.pending = <<>>]

\* db.close()
DbClose(db) ==
    [db EXCEPT !.state = "closed", !.pending = <<>>, !.closes = @ + 1]

(***************************************************************************)
(* analyze_resumes: validation (lines 236-248).                            *)
(***************************************************************************)
Allowed(filename) ==
    \E k \in 1..Len(allowed_extensions) :
        EndsWith(Lower(filename), allowed_extensions[k])

\* Variant of ValidationError whose size check is off by one.
ValidationErrorOffByOne(fs) ==
    IF fs = <<>>
    THEN HTTPException("400", <<"No files uploaded">>)
    ELSE IF Len(fs) >= MaxFiles
    THEN HTTPException("400", <<"Maximum 10 files allowed">>)
    ELSE IF \E i \in 1..Len(fs) : ~Allowed(fs[i].filename)
    THEN HTTPException("400", <<"Unsupported file type: ">>)
    ELSE NoExc

ValidationError(fs) ==
    IF fs = <<>>
    THEN HTTPException("400", <<"No files uploaded">>)
    ELSE IF Len(fs) > MaxFiles
    THEN HTTPException("400", <<"Maximum 10 files allowed">>)
    ELSE IF \E i \in 1..Len(fs) : ~Allowed(fs[i].filename)
    THEN HTTPException("400", <<"Unsupported file type: ">>)
    ELSE NoExc

ErrorResponse(e) == [status |-> e.status, results |-> <<>>, detail |-> e.detail]

Event(op, pos) == [op |-> op, pos |-> pos]

NoCall == [made |-> FALSE, out |-> ApiNone, parser_called |-> FALSE,
           cleaned |-> <<>>, exc |-> NoExc]

(***************************************************************************)
(* Initial states.                                                         *)
(***************************************************************************)
\* The row of an earlier request, in the table when the requests start.
PriorRow ==
    [id |-> 1, filename |-> fTxt.filename, job_description |-> "jd0",
     score |-> 5, justification |-> "z", req |-> 0, pos |-> 1]

PriorStore == <<PriorRow>>

\* An item is an upload and the external model's behaviour for it.
Item(u, out) == [file |-> u, out |-> out]

\* Every upload with a plain reply, and fTxt with every behaviour of the model.
Items ==
    {Item(u, ApiText(ReplyPlain)) : u \in Uploads}
        \cup {Item(fTxt, out) : out \in ApiOutcomes}

Filler(i) ==
    IF i % 2 = 1
    THEN Item(fTxt, ApiText(ReplyPlain))
    ELSE Item(fDocx, ApiText(ReplyBareFence))

\* Every batch of at most MaxVaried items.
VariedBatches == UNION {[1..n -> Items] : n \in 0..MaxVaried}

\* Longer batches, up to one more than the limit: any item at one position
\* (or none, when p > n) among well-behaved files.
LongBatches ==
    {[i \in 1..n |-> IF i = p THEN it ELSE Filler(i)] :
        n \in (MaxVaried + 1)..(MaxFiles + 1), p \in 1..(MaxFiles + 1),
        it \in Items}

Batches == VariedBatches \cup LongBatches

\* Batches of the concurrent requests.
ConcItems ==
    {Item(fTxt, ApiText(ReplyJsonFence)), Item(fTxt, ApiRaised),
     Item(fPdfUpper, ApiText(ReplyPlain))}

ConcBatches == UNION {[1..n -> ConcItems] : n \in 1..MaxConc}

\* The other request: files of its own, the last of them possibly failing.
ConcBatchesOther ==
    {[i \in 1..n |-> IF i = n /\ last
                     THEN Item(fPdf, ApiNone)
                     ELSE Item(fDocx, ApiText(ReplyBareFence))] :
        n \in 1..MaxConc, last \in BOOLEAN}

FilesOf(b) == [i \in 1..Len(b) |-> b[i].file]
OutcomesOf(b) == [i \in 1..Len(b) |-> b[i].out]

InitLocals ==
    /\ job_description = [r \in Reqs |-> IF r = 1 THEN "jdA" ELSE "jdB"]
    /\ store = PriorStore
    /\ idx = [r \in Reqs |-> 0]
    /\ session = [r \in Reqs |-> NoSession]
    /\ results = [r \in Reqs |-> <<>>]
    /\ resume_text = [r \in Reqs |-> ""]
    /\ analysis = [r \in Reqs |-> NoValue]
    /\ exc = [r \in Reqs |-> NoExc]
    /\ resp = [r \in Reqs |-> NoResp]
    /\ trace = [r \in Reqs |-> <<>>]
    /\ call = [r \in Reqs |-> NoCall]

\* One request; the other never arrives.
Init ==
    /\ \E b \in Batches :
          /\ files = [r \in Reqs |-> IF r = 1 THEN FilesOf(b) ELSE <<>>]
          /\ api = [r \in Reqs |-> IF r = 1 THEN OutcomesOf(b) ELSE <<>>]
    /\ pc = [r \in Reqs |-> IF r = 1 THEN "start" ELSE "absent"]
    /\ InitLocals

\* Two requests in flight at once.
InitConc ==
    /\ \E b1 \in ConcBatches, b2 \in ConcBatchesOther :
          /\ files = [r \in Reqs |-> IF r = 1 THEN FilesOf(b1) ELSE FilesOf(b2)]
          /\ api = [r \in Reqs |-> IF r = 1 THEN OutcomesOf(b1) ELSE OutcomesOf(b2)]
    /\ pc = [r \in Reqs |-> "start"]
    /\ InitLocals

(***************************************************************************)
(* analyze_resumes, one action per step of the handler.                    *)
(***************************************************************************)
Log(r, op, pos) == trace' = [trace EXCEPT ![r] = Append(@, Event(op, pos))]

\* lines 236-252: validation, then SessionLocal() and results = []
Validate(r) ==
    /\ pc[r] = "start"
    /\ LET e == ValidationError(files[r])
       IN  IF e # NoExc
           THEN /\ resp' = [resp EXCEPT ![r] = ErrorResponse(e)]
                /\ pc' = [pc EXCEPT ![r] = "done"]
                /\ UNCHANGED <<session, idx, trace>>
           ELSE /\ session' = [session EXCEPT ![SessionOf(r)] = SessionLocal]
                /\ idx' = [idx EXCEPT ![r] = 1]
                /\ pc' = [pc EXCEPT ![r] = "loop"]
                /\ Log(r, "open", 0)
                /\ UNCHANGED resp
    /\ UNCHANGED <<files, api, job_description, results, resume_text, analysis,
                   exc, store, call>>

\* line 258: resume_text = parse_resume_file(file)
Extract(r) ==
    /\ pc[r] = "loop"
    /\ idx[r] <= Len(files[r])
    /\ LET x == parse_resume_file(files[r][idx[r]])
       IN  IF x.exc = NoExc
           THEN /\ resume_text' = [resume_text EXCEPT ![r] = x.text]
                /\ pc' = [pc EXCEPT ![r] = "score"]
                /\ UNCHANGED exc
           ELSE /\ exc' = [exc EXCEPT ![r] = x.exc]
                /\ pc' = [pc EXCEPT ![r] = "except"]
                /\ UNCHANGED resume_text
    /\ Log(r, "extract", idx[r])
    /\ UNCHANGED <<files, api, job_description, idx, session, results, analysis,
                   resp, store, call>>

\* Variant of Score that asks the model again when get_analysis fails.
ScoreWithRetry(r) ==
    /\ pc[r] = "score"
    /\ LET out == api[r][idx[r]]
           a == get_analysis(out)
       IN     /\ call' = [call EXCEPT ![r] =
                            [made |-> TRUE, out |-> out,
                             parser_called |-> a.parser_called,
                             cleaned |-> a.cleaned, exc |-> a.exc]]
              /\ IF a.exc = NoExc
                 THEN /\ analysis' = [analysis EXCEPT ![r] = a.value]
                      /\ pc' = [pc EXCEPT ![r] = "add"]
                 ELSE UNCHANGED <<analysis, pc>>
    /\ Log(r, "api", idx[r])
    /\ UNCHANGED <<files, api, job_description, idx, session, results,
                   resume_text, exc, resp, store>>

\* line 261: analysis = get_analysis(resume_text, job_description)
Score(r) ==
    /\ pc[r] = "score"
    /\ LET out == api[r][idx[r]]
           a == get_analysis(out)
       IN     /\ call' = [call EXCEPT ![r] =
                            [made |-> TRUE, out |-> out,
                             parser_called |-> a.parser_called,
                             cleaned |-> a.cleaned, exc |-> a.exc]]
              /\ IF a.exc = NoExc
                 THEN /\ analysis' = [analysis EXCEPT ![r] = a.value]
                      /\ pc' = [pc EXCEPT ![r] = "add"]
                      /\ UNCHANGED exc
                 ELSE /\ exc' = [exc EXCEPT ![r] = a.exc]
                      /\ pc' = [pc EXCEPT ![r] = "except"]
                      /\ UNCHANGED analysis
    /\ Log(r, "api", idx[r])
    /\ UNCHANGED <<files, api, job_description, idx, session, results, resume_text,
                   resp, store>>

\* lines 264-270: build the ResumeAnalysis object and db.add it
AddRow(r) ==
    /\ pc[r] = "add"
    /\ LET e1 == Subscript(analysis[r], "score")
           e2 == Subscript(analysis[r], "justification")
       IN  IF e1 # NoExc \/ e2 # NoExc
           THEN /\ exc' = [exc EXCEPT ![r] = IF e1 # NoExc THEN e1 ELSE e2]
                /\ pc' = [pc EXCEPT ![r] = "except"]
                /\ UNCHANGED <<session, trace>>
           ELSE /\ session' = [session EXCEPT ![SessionOf(r)] =
                      DbAdd(@, ResumeAnalysis(files[r][idx[r]].filename,
                                              job_description[r],
                                              analysis[r].fields.score,
                                              analysis[r].fields.justification,
                                              r, idx[r]))]
                /\ pc' = [pc EXCEPT ![r] = "commit"]
                /\ Log(r, "add", idx[r])
                /\ UNCHANGED exc
    /\ UNCHANGED <<files, api, job_description, idx, results, resume_text, analysis,
                   resp, store, call>>

\* line 271: db.commit(), which the database may refuse
Commit(r) ==
    /\ pc[r] = "commit"
    /\ \E ok \in BOOLEAN :
          IF ok
          THEN /\ store' = store \o Flushed(session[SessionOf(r)], store)
               /\ session' = [session EXCEPT ![SessionOf(r)] = DbCommitted(@)]
               /\ pc' = [pc EXCEPT ![r] = "append"]
               /\ UNCHANGED exc
          ELSE /\ exc' = [exc EXCEPT ![r] =
                             Raised("OperationalError", "database is locked")]
               /\ pc' = [pc EXCEPT ![r] = "except"]
               /\ UNCHANGED <<store, session>>
    /\ Log(r, "commit", idx[r])
    /\ UNCHANGED <<files, api, job_description, idx, results, resume_text, analysis,
                   resp, call>>

\* lines 274-278: results.append(...), and on to the next file
AppendResult(r) ==
    /\ pc[r] = "append"
    /\ results' = [results EXCEPT ![r] =
          Append(@, [filename |-> files[r][idx[r]].filename,
                     score |-> analysis[r].fields.score,
                     justification |-> analysis[r].fields.justification])]
    /\ idx' = [idx EXCEPT ![r] = @ + 1]
    /\ pc' = [pc EXCEPT ![r] = "loop"]
    /\ UNCHANGED <<files, api, job_description, session, resume_text, analysis, exc,
                   resp, store, trace, call>>

\* line 280: return {"results": results}
ReturnResults(r) ==
    /\ pc[r] = "loop"
    /\ idx[r] > Len(files[r])
    /\ resp' = [resp EXCEPT ![r] =
                  [status |-> "200", results |-> results[r], detail |-> <<>>]]
    /\ pc' = [pc EXCEPT ![r] = "finally"]
    /\ UNCHANGED <<files, api, job_description, idx, session, results, resume_text,
                   analysis, exc, store, trace, call>>

\* Variant of Except that also deletes the rows the request has committed.
ExceptCompensating(r) ==
    /\ pc[r] = "except"
    /\ session' = [session EXCEPT ![SessionOf(r)] = DbRollback(@)]
    /\ store' = SelectSeq(store, LAMBDA row : row.req # r)
    /\ resp' = [resp EXCEPT ![r] =
          ErrorResponse(HTTPException("500",
              <<"Error processing files: ">> \o Str(exc[r])))]
    /\ pc' = [pc EXCEPT ![r] = "finally"]
    /\ Log(r, "rollback", idx[r])
    /\ UNCHANGED <<files, api, job_description, idx, results, resume_text,
                   analysis, exc, call>>

\* lines 282-289: except Exception: db.rollback(), raise HTTPException(500)
Except(r) ==
    /\ pc[r] = "except"
    /\ session' = [session EXCEPT ![SessionOf(r)] = DbRollback(@)]
    /\ resp' = [resp EXCEPT ![r] =
          ErrorResponse(HTTPException("500",
              <<"Error processing files: ">> \o Str(exc[r])))]
    /\ pc' = [pc EXCEPT ![r] = "finally"]
    /\ Log(r, "rollback", idx[r])
    /\ UNCHANGED <<files, api, job_description, idx, results, resume_text, analysis,
                   exc, store, call>>

\* lines 291-293: finally: db.close()
Finally(r) ==
    /\ pc[r] = "finally"
    /\ session' = [session EXCEPT ![SessionOf(r)] = DbClose(@)]
    /\ pc' = [pc EXCEPT ![r] = "done"]
    /\ Log(r, "close", idx[r])
    /\ UNCHANGED <<files, api, job_description, idx, results, resume_text, analysis,
                   exc, resp, store, call>>

Next ==
    \E r \in Reqs :
        \/ Validate(r)
        \/ Extract(r)
        \/ Score(r)
        \/ AddRow(r)
        \/ Commit(r)
        \/ AppendResult(r)
        \/ ReturnResults(r)
        \/ Except(r)
        \/ Finally(r)

Spec == Init /\ [][Next]_vars

SpecConc == InitConc /\ [][Next]_vars

(***************************************************************************)
(* Vocabulary of the properties.                                           *)
(***************************************************************************)
\* The committed rows request r created, in table order.
RowsOf(r) == SelectSeq(store, LAMBDA row : row.req = r)

\* The steps of request r that touch a file.
FileOps == {"extract", "api", "add", "commit"}

\* Request r failed inside the per-file loop (on file idx[r]).
Aborted(r) == exc[r] # NoExc

Mentions(detail, msg) == \E i \in 1..Len(detail) : detail[i] = msg

UnsupportedMsg == "Unsupported file type: "

(***************************************************************************)
(* Properties.                                                             *)
(***************************************************************************)

\* C1: when processing first fails on file k of a valid batch, then from the
\* failure on (through rollback, close and the end of the request) the table
\* holds exactly k-1 rows of this request, those of files 1..k-1 in
\* submission order, and no extraction, scoring call, add or commit was
\* started for any file after k.
C1_PartialCommit ==
    \A r \in Reqs :
        Aborted(r) =>
            LET k == idx[r]
                rows == RowsOf(r)
            IN  /\ k \in 1..Len(files[r])
                /\ Len(rows) = k - 1
                /\ \A i \in 1..(k - 1) :
                      /\ rows[i].pos = i
                      /\ rows[i].filename = files[r][i].filename
                /\ \A j \in 1..Len(trace[r]) :
                      trace[r][j].op \in FileOps => trace[r][j].pos <= k

\* A request of three files ended after failing on the second one.
C1_Witness ==
    /\ pc[1] = "done"
    /\ Aborted(1)
    /\ Len(files[1]) = 3
    /\ idx[1] = 2
    /\ Len(RowsOf(1)) = 1
    /\ resp[1].status = "500"

\* C2: an unsupported-file-type failure only ever arises in validation: it is
\* never the exception in flight of the per-file loop, and a response that
\* reports it has status 400 and comes before any step of processing.
C2_UnsupportedOnlyInValidation ==
    \A r \in Reqs :
        /\ ~Mentions(exc[r].detail, UnsupportedMsg)
        /\ Mentions(resp[r].detail, UnsupportedMsg) =>
              /\ resp[r].status = "400"
              /\ trace[r] = <<>>

\* C3: a request of n files (1 <= n <= 10) in which every step of every file
\* succeeded answers 200 with n results, entry i carrying the i-th file name
\* and the score and justification the model returned for it, and the table
\* has gained exactly n rows of the request with the same fields and the
\* submitted job description.
C3_AllSucceed ==
    \A r \in Reqs :
        /\ (pc[r] = "done" /\ session[r].state # "none" /\ ~Aborted(r)) =>
              resp[r].status = "200"
        /\ (pc[r] = "done" /\ resp[r].status = "200") =>
              LET n == Len(files[r])
                  rows == RowsOf(r)
              IN  /\ n \in 1..MaxFiles
                  /\ Len(resp[r].results) = n
                  /\ Len(rows) = n
                  /\ \A i \in 1..n :
                        LET v == get_analysis(api[r][i]).value.fields
                        IN  /\ resp[r].results[i] =
                                  [filename |-> files[r][i].filename,
                                   score |-> v.score,
                                   justification |-> v.justification]
                            /\ rows[i].filename = files[r][i].filename
                            /\ rows[i].job_description = job_description[r]
                            /\ rows[i].score = v.score
                            /\ rows[i].justification = v.justification

\* A request of the largest allowed batch ended with 200, two neighbouring
\* files having received different scores.
C3_Witness ==
    /\ pc[1] = "done"
    /\ resp[1].status = "200"
    /\ Len(resp[1].results) = MaxFiles
    /\ resp[1].results[1].score # resp[1].results[2].score

\* The clean-up procedure as the specification words it: at most one opening
\* marker is removed.
ReferenceClean(text) ==
    LET t0 == Strip(text)
        t1 == IF StartsWith(t0, Fence7) THEN DropFirst(t0, 7)
              ELSE IF StartsWith(t0, Fence3) THEN DropFirst(t0, 3)
              ELSE t0
        t2 == IF EndsWith(t1, Fence3) THEN DropLast(t1, 3) ELSE t1
    IN  Strip(t2)

\* C4: whenever get_analysis reaches the JSON parser, the text it hands over
\* is the reference clean-up of the model's reply.
C4_CleanMatchesReference ==
    \A r \in Reqs :
        call[r].parser_called =>
            call[r].cleaned = ReferenceClean(call[r].out.text)

\* The failure kind a get_analysis error reports, read off its detail.
ErrorKind(e) ==
    IF e.detail = <<>> THEN "none"
    ELSE CASE e.detail[1] = "Empty response from Gemini API" -> "EmptyResponse"
           [] e.detail[1] = "Invalid JSON response from Gemini: " ->
                 "InvalidResponseFormat"
           [] e.detail[1] = "Error analyzing resume: " -> "ScoringFailed"
           [] OTHER -> "other"

\* The model answered, with a missing, empty or whitespace-only text.
EmptyReply(out) ==
    ~out.raised /\ (~out.has_text \/ Strip(out.text) = <<>>)

\* C5: get_analysis reports its failures by cause: an empty reply as
\* EmptyResponse, a reply that is not JSON as InvalidResponseFormat with the
\* parser's detail, ScoringFailed only when the API call raised; and every
\* failure leaves as an HTTPException.
C5_FailureKinds ==
    \A r \in Reqs :
        call[r].made =>
            LET out == call[r].out
                e == call[r].exc
            IN  /\ e.type \in {"none", "HTTPException"}
                /\ EmptyReply(out) => ErrorKind(e) = "EmptyResponse"
                /\ (call[r].parser_called /\ JsonLoads(call[r].cleaned).exc # NoExc) =>
                      /\ ErrorKind(e) = "InvalidResponseFormat"
                      /\ Mentions(e.detail, "Expecting value")
                /\ ErrorKind(e) = "ScoringFailed" => out.raised

\* A file name that ends, ignoring case, in one of the three extensions.
SupportedName(name) ==
    \E ext \in {ExtPdf, ExtDocx, ExtTxt} :
        /\ Len(name) >= Len(ext)
        /\ Lower(SubSeq(name, Len(name) - Len(ext) + 1, Len(name))) = ext

MustReject(fs) ==
    \/ Len(fs) = 0
    \/ Len(fs) > MaxFiles
    \/ \E i \in 1..Len(fs) : ~SupportedName(fs[i].filename)

\* C6: a request with no file, with more than 10 files, or with a file of an
\* unsupported name anywhere in the batch is answered 400 and nothing else
\* has happened: no step was started, no session opened, nothing extracted
\* or scored, and the table is as it was.  Any other batch, one of exactly
\* 10 supported files included, is not rejected.
C6_RejectedUntouched ==
    \A r \in Reqs :
        pc[r] \notin {"start", "absent"} =>
            IF MustReject(files[r])
            THEN /\ pc[r] = "done"
                 /\ resp[r].status = "400"
                 /\ trace[r] = <<>>
                 /\ session[r] = NoSession
                 /\ ~call[r].made
                 /\ resume_text[r] = ""
                 /\ results[r] = <<>>
                 /\ store = PriorStore
            ELSE /\ resp[r].status # "400"
                 /\ session[r].state # "none"

\* A batch was rejected for an unsupported file that follows supported ones.
C6_Witness ==
    /\ pc[1] = "done"
    /\ resp[1].status = "400"
    /\ Len(files[1]) = 4
    /\ files[1][3] = fExe
    /\ SupportedName(files[1][1].filename)

\* Request r has started step op on file i.
Started(r, op, i) == \E j \in 1..Len(trace[r]) : trace[r][j] = Event(op, i)

\* Committed rows are never changed or removed: the table only grows.
StoreOnlyGrows ==
    /\ Len(store') >= Len(store)
    /\ SubSeq(store', 1, Len(store)) = store

\* Every row of the table that a request created belongs to one file of that
\* request whose extraction, scoring and insert all succeeded, and no other
\* row belongs to the same file; the file a request failed on has no row.
StoreRecordsSound ==
    /\ \A i \in 1..Len(store) :
          LET row == store[i]
          IN  /\ row.id = i
              /\ row.req # 0 =>
                    /\ row.req \in Reqs
                    /\ row.pos \in 1..Len(files[row.req])
                    /\ row.filename = files[row.req][row.pos].filename
                    /\ row.job_description = job_description[row.req]
                    /\ parse_resume_file(files[row.req][row.pos]).exc = NoExc
                    /\ LET a == get_analysis(api[row.req][row.pos])
                       IN  /\ a.exc = NoExc
                           /\ Subscript(a.value, "score") = NoExc
                           /\ Subscript(a.value, "justification") = NoExc
                           /\ row.score = a.value.fields.score
                           /\ row.justification = a.value.fields.justification
                    /\ \A op \in FileOps : Started(row.req, op, row.pos)
                    /\ \A j \in 1..Len(store) :
                          (store[j].req = row.req /\ store[j].pos = row.pos)
                              => j = i
    /\ \A r \in Reqs :
          Aborted(r) =>
              ~\E i \in 1..Len(store) :
                  store[i].req = r /\ store[i].pos = idx[r]

\* C7: in every reachable state each record of the table was created by
\* exactly one file of one request for which extraction, scoring and the
\* insert-and-commit succeeded, a file whose processing failed has no
\* record, no (request, position) pair has two records, and no step ever
\* changes or removes a committed record.
C7_Records == []StoreRecordsSound /\ [][StoreOnlyGrows]_vars

\* A request that committed a row and then failed on a reply without the
\* justification key has ended.
C7_Witness ==
    /\ pc[1] = "done"
    /\ exc[1].type = "KeyError"
    /\ idx[1] = 2
    /\ Len(RowsOf(1)) = 1

\* C8: a session is closed at most once, and exactly once by the time a
\* request that opened one ends; close is the last step; after an abort the
\* rollback comes before the close with nothing but the close after it, and
\* the row of a commit that failed is neither in the table nor pending.
C8_SessionDiscipline ==
    \A r \in Reqs :
        LET t == trace[r]
            n == Len(t)
        IN  /\ session[r].closes <= 1
            /\ \A j \in 1..n : t[j].op = "close" => j = n
            /\ (pc[r] = "done" /\ session[r].state # "none") =>
                  /\ session[r].state = "closed"
                  /\ session[r].closes = 1
                  /\ session[r].pending = <<>>
                  /\ t[n].op = "close"
            /\ (Aborted(r) /\ pc[r] \in {"finally", "done"}) =>
                  /\ \E j \in 1..n :
                        /\ t[j].op = "rollback"
                        /\ \A m \in (j + 1)..n : t[m].op = "close"
                  /\ session[r].pending = <<>>
                  /\ ~\E i \in 1..Len(store) :
                        store[i].req = r /\ store[i].pos = idx[r]

\* A request whose second commit failed has ended.
C8_Witness ==
    /\ pc[1] = "done"
    /\ exc[1].type = "OperationalError"
    /\ idx[1] = 2
    /\ session[1].closes = 1

\* The place of a per-file step in the order the handler takes them.
OpRank(e) ==
    4 * e.pos + (CASE e.op = "extract" -> 0
                   [] e.op = "api" -> 1
                   [] e.op = "add" -> 2
                   [] e.op = "commit" -> 3)

ApiCalls(r) == Cardinality({j \in 1..Len(trace[r]) : trace[r][j].op = "api"})

\* C9: the per-file steps of a request happen in strictly increasing order
\* (extract, scoring call, add, commit of file i, then file i+1), none of
\* them twice and none without the step before it; the scoring API is called
\* at most once per file, at most n times in all, and exactly k times when
\* the request aborts on the scoring of file k.
C9_StepOrder ==
    \A r \in Reqs :
        LET t == trace[r]
        IN  /\ \A j, m \in 1..Len(t) :
                  (j < m /\ t[j].op \in FileOps /\ t[m].op \in FileOps) =>
                      OpRank(t[j]) < OpRank(t[m])
            /\ \A j \in 1..Len(t) :
                  /\ t[j].op = "api" => Started(r, "extract", t[j].pos)
                  /\ t[j].op = "add" => Started(r, "api", t[j].pos)
                  /\ t[j].op = "commit" => Started(r, "add", t[j].pos)
                  /\ (t[j].op = "extract" /\ t[j].pos > 1) =>
                        Started(r, "commit", t[j].pos - 1)
            /\ ApiCalls(r) <= Len(files[r])
            /\ (Aborted(r) /\ call[r].made /\ call[r].exc # NoExc) =>
                  ApiCalls(r) = idx[r]

\* A request of four files aborted on the scoring of the third.
C9_Witness ==
    /\ pc[1] = "done"
    /\ Len(files[1]) = 4
    /\ idx[1] = 3
    /\ call[1].exc # NoExc
    /\ ApiCalls(1) = 3

\* Each request sees its own rows, results and pending objects only, and
\* every commit it made is in the table.
RequestsIsolated ==
    \A r \in Reqs :
        LET rows == RowsOf(r)
        IN  /\ \A i \in 1..Len(rows) :
                  /\ rows[i].pos = i
                  /\ rows[i].filename = files[r][i].filename
                  /\ rows[i].job_description = job_description[r]
            /\ Len(rows) = Len(results[r]) + (IF pc[r] = "append" THEN 1 ELSE 0)
            /\ \A i \in 1..Len(results[r]) :
                  /\ results[r][i].filename = files[r][i].filename
                  /\ results[r][i].score = rows[i].score
            /\ resp[r].status = "200" => resp[r].results = results[r]
            /\ \A i \in 1..Len(session[r].pending) :
                  session[r].pending[i].req = r

\* C10: with two requests interleaved in any way, the rows committed for a
\* request are those of a prefix of its own files, its results hold only its
\* own files, and no step of the other request (its rollback included)
\* removes, alters or loses one of its rows.
C10_Isolation == []RequestsIsolated /\ [][StoreOnlyGrows]_vars

\* Request 1 aborted after one commit while request 2 committed both its
\* files, one before and one after the row of request 1.
C10_Witness ==
    /\ pc[1] = "done"
    /\ Aborted(1)
    /\ pc[2] = "done"
    /\ resp[2].status = "200"
    /\ Len(store) = 4
    /\ store[2].req = 2
    /\ store[3].req = 1
    /\ store[4].req = 2

====
